---- MODULE Spec2Model ----
(***************************************************************************)
(* Model of organizer.py: one directory (the root) is scanned and every    *)
(* eligible file is moved into the category folder chosen by its           *)
(* extension.  File names, extensions and category names are sequences of  *)
(* one-character strings, so that split('.'), lower(), startswith() and    *)
(* Path.with_stem() are computed character by character.                   *)
(***************************************************************************)
EXTENDS Integers, Sequences, FiniteSets, TLC

\* ------------------------------------------------------------------ bounds
\* At most MaxFiles entries of Pool are in the root initially.
MaxFiles == 2
\* organize_files is called at most MaxRuns times in a row on the same root.
MaxRuns == 2

\* ------------------------------------------------------- CONFIGURATION
\* os.path.basename(LOG_FILE)
LOG_FILE == <<"f", "i", "l", "e", "_", "o", "r", "g", "a", "n", "i", "z", "e", "r", "_", "l", "o", "g", ".", "t", "x", "t">>

\* category -> list of extensions, in the order of the dict literal
EXTENSION_MAP == <<
    [category |-> <<"D", "o", "c", "u", "m", "e", "n", "t", "s">>,
     exts |-> <<<<"p", "d", "f">>, <<"d", "o", "c">>, <<"d", "o", "c", "x">>, <<"o", "d", "t">>, <<"r", "t", "f">>, <<"t", "e", "x">>, <<"t", "x", "t">>, <<"w", "p", "d">>, <<"p", "a", "g", "e", "s">>>>],
    [category |-> <<"S", "p", "r", "e", "a", "d", "s", "h", "e", "e", "t", "s">>,
     exts |-> <<<<"x", "l", "s">>, <<"x", "l", "s", "x">>, <<"x", "l", "s", "m">>, <<"o", "d", "s">>, <<"c", "s", "v">>>>],
    [category |-> <<"P", "r", "e", "s", "e", "n", "t", "a", "t", "i", "o", "n", "s">>,
     exts |-> <<<<"p", "p", "t">>, <<"p", "p", "t", "x">>, <<"o", "d", "p">>, <<"k", "e", "y">>>>],
    [category |-> <<"I", "m", "a", "g", "e", "s">>,
     exts |-> <<<<"p", "n", "g">>, <<"j", "p", "g">>, <<"j", "p", "e", "g">>, <<"g", "i", "f">>, <<"b", "m", "p">>, <<"s", "v", "g">>, <<"w", "e", "b", "p">>, <<"t", "i", "f", "f">>, <<"i", "c", "o">>, <<"h", "e", "i", "c">>>>],
    [category |-> <<"V", "i", "d", "e", "o", "s">>,
     exts |-> <<<<"m", "p", "4">>, <<"m", "o", "v">>, <<"a", "v", "i">>, <<"f", "l", "v">>, <<"w", "m", "v">>, <<"m", "k", "v">>, <<"w", "e", "b", "m">>, <<"m", "4", "v">>, <<"m", "p", "g">>, <<"m", "p", "e", "g">>, <<"3", "g", "p">>>>],
    [category |-> <<"A", "u", "d", "i", "o">>,
     exts |-> <<<<"m", "p", "3">>, <<"w", "a", "v">>, <<"f", "l", "a", "c">>, <<"a", "a", "c">>, <<"o", "g", "g">>, <<"w", "m", "a">>, <<"m", "4", "a">>, <<"a", "i", "f", "f">>, <<"m", "i", "d">>, <<"m", "i", "d", "i">>>>],
    [category |-> <<"A", "r", "c", "h", "i", "v", "e", "s">>,
     exts |-> <<<<"z", "i", "p">>, <<"r", "a", "r">>, <<"7", "z">>, <<"t", "a", "r">>, <<"g", "z">>, <<"b", "z", "2">>, <<"i", "s", "o">>>>],
    [category |-> <<"E", "x", "e", "c", "u", "t", "a", "b", "l", "e", "s">>,
     exts |-> <<<<"e", "x", "e">>, <<"m", "s", "i">>, <<"b", "a", "t">>, <<"s", "h">>, <<"a", "p", "p">>, <<"a", "p", "k">>, <<"d", "m", "g">>>>],
    [category |-> <<"C", "o", "d", "e">>,
     exts |-> <<<<"p", "y">>, <<"j", "s">>, <<"h", "t", "m", "l">>, <<"c", "s", "s">>, <<"j", "a", "v", "a">>, <<"c", "p", "p">>, <<"c">>, <<"h">>, <<"p", "h", "p">>, <<"s", "w", "i", "f", "t">>, <<"j", "s", "o", "n">>, <<"x", "m", "l">>, <<"s", "q", "l">>, <<"r", "b">>, <<"g", "o">>, <<"k", "t">>, <<"t", "s">>>>],
    [category |-> <<"D", "e", "s", "i", "g", "n">>,
     exts |-> <<<<"a", "i">>, <<"p", "s">>, <<"e", "p", "s">>, <<"x", "d">>, <<"f", "i", "g">>, <<"i", "n", "d", "d">>, <<"c", "d", "r">>, <<"s", "k", "e", "t", "c", "h">>>>],
    [category |-> <<"E", "b", "o", "o", "k", "s">>,
     exts |-> <<<<"e", "p", "u", "b">>, <<"m", "o", "b", "i">>, <<"a", "z", "w">>, <<"a", "z", "w", "3">>, <<"f", "b", "2">>>>],
    [category |-> <<"F", "o", "n", "t", "s">>,
     exts |-> <<<<"t", "t", "f">>, <<"o", "t", "f">>, <<"w", "o", "f", "f">>, <<"w", "o", "f", "f", "2">>, <<"e", "o", "t">>>>],
    [category |-> <<"S", "y", "s", "t", "e", "m">>,
     exts |-> <<<<"d", "l", "l">>, <<"s", "y", "s">>, <<"i", "n", "i">>, <<"c", "f", "g">>>>],
    [category |-> <<"T", "o", "r", "r", "e", "n", "t", "s">>,
     exts |-> <<<<"t", "o", "r", "r", "e", "n", "t">>>>],
    [category |-> <<"L", "o", "g", "s">>,
     exts |-> <<<<"l", "o", "g">>, <<"t", "x", "t", "l", "o", "g">>>>],
    [category |-> <<"T", "e", "m", "p", " ", "F", "i", "l", "e", "s">>,
     exts |-> <<<<"t", "m", "p">>, <<"b", "a", "k">>, <<"o", "l", "d">>>>],
    [category |-> <<"C", "o", "n", "f", "i", "g", " ", "F", "i", "l", "e", "s">>,
     exts |-> <<<<"y", "m", "l">>, <<"y", "a", "m", "l">>, <<"t", "o", "m", "l">>, <<"e", "n", "v">>, <<"c", "o", "n", "f">>, <<"p", "r", "o", "p", "e", "r", "t", "i", "e", "s">>>>],
    [category |-> <<"G", "a", "m", "e", " ", "F", "i", "l", "e", "s">>,
     exts |-> <<<<"u", "n", "i", "t", "y", "p", "a", "c", "k", "a", "g", "e">>, <<"a", "s", "s", "e", "t">>, <<"p", "r", "e", "f", "a", "b">>, <<"m", "a", "t", "e", "r", "i", "a", "l">>>>],
    [category |-> <<"C", "A", "D", " ", "F", "i", "l", "e", "s">>,
     exts |-> <<<<"s", "t", "l">>, <<"o", "b", "j">>, <<"f", "b", "x">>, <<"d", "a", "e">>, <<"3", "d", "s">>>>],
    [category |-> <<"S", "c", "r", "i", "p", "t", "s">>,
     exts |-> <<<<"s", "h">>, <<"b", "a", "t">>, <<"p", "s", "1">>, <<"c", "m", "d">>>>],
    [category |-> <<"D", "a", "t", "a", "b", "a", "s", "e">>,
     exts |-> <<<<"d", "b">>, <<"s", "q", "l", "i", "t", "e">>, <<"m", "d", "b">>, <<"a", "c", "c", "d", "b">>>>],
    [category |-> <<"W", "e", "b", " ", "F", "i", "l", "e", "s">>,
     exts |-> <<<<"h", "t", "m", "l">>, <<"c", "s", "s">>, <<"j", "s">>, <<"p", "h", "p">>, <<"x", "m", "l">>>>],
    [category |-> <<"O", "t", "h", "e", "r">>,
     exts |-> <<>>]
>>

Range(s) == {s[i] : i \in DOMAIN s}

TableExts == UNION {Range(EXTENSION_MAP[i].exts) : i \in DOMAIN EXTENSION_MAP}

Categories == {EXTENSION_MAP[i].category : i \in DOMAIN EXTENSION_MAP}

\* The dict comprehension assigns ext -> category in table order, so a later
\* category listing the same extension overwrites an earlier one.
FILE_EXTENSIONS ==
    [e \in TableExts |->
        LET idx == {i \in DOMAIN EXTENSION_MAP : e \in Range(EXTENSION_MAP[i].exts)}
            last == CHOOSE i \in idx : \A j \in idx : j <= i
        IN  EXTENSION_MAP[last].category]

\* FILE_EXTENSIONS.get(ext, "Other")
Get(ext) == IF ext \in DOMAIN FILE_EXTENSIONS THEN FILE_EXTENSIONS[ext] ELSE <<"O", "t", "h", "e", "r">>

\* ------------------------------------------------------ string functions
UpperCase == <<"A", "B", "C", "D", "E", "F", "G", "H", "I", "J", "K", "L", "M", "N", "O", "P", "Q", "R", "S", "T", "U", "V", "W", "X", "Y", "Z">>
LowerCase == <<"a", "b", "c", "d", "e", "f", "g", "h", "i", "j", "k", "l", "m", "n", "o", "p", "q", "r", "s", "t", "u", "v", "w", "x", "y", "z">>

\* str.lower() on one character
LowerChar(c) ==
    IF \E i \in DOMAIN UpperCase : UpperCase[i] = c
    THEN LowerCase[CHOOSE i \in DOMAIN UpperCase : UpperCase[i] = c]
    ELSE c

\* str.lower()
Lower(s) == [i \in 1..Len(s) |-> LowerChar(s[i])]

\* '.' in filename
HasDot(s) == \E i \in 1..Len(s) : s[i] = "."

\* str.rfind('.'), 1-based; 0 when there is no '.'
RFindDot(s) ==
    IF HasDot(s)
    THEN CHOOSE i \in 1..Len(s) : s[i] = "." /\ \A j \in (i+1)..Len(s) : s[j] # "."
    ELSE 0

\* filename.split('.')[-1]
LastPart(s) == SubSeq(s, RFindDot(s) + 1, Len(s))

\* str.startswith(c) for a one-character prefix
StartsWith(s, c) == Len(s) >= 1 /\ s[1] = c

\* PurePath.suffix: the last '.' and what follows it, unless that '.' is the
\* first or the last character of the name
Suffix(s) ==
    LET i == RFindDot(s)
    IN  IF 1 < i /\ i < Len(s) THEN SubSeq(s, i, Len(s)) ELSE << >>

\* PurePath.stem
Stem(s) ==
    LET i == RFindDot(s)
    IN  IF 1 < i /\ i < Len(s) THEN SubSeq(s, 1, i - 1) ELSE s

\* target_path.with_stem(f"{target_path.stem}_copy")
WithCopyStem(s) == Stem(s) \o <<"_", "c", "o", "p", "y">> \o Suffix(s)

\* ------------------------------------------------------------ file system
\* The root is a function from entry names to entries.  An entry is a file
\* (with its data) or a directory (with the files it holds and whether it
\* accepts writes; a directory that does not accept writes rejects every
\* creation, replacement and rename inside it).
NoData == [origin |-> "none", name |-> << >>]
NoFiles == [n \in {} |-> NoData]

FileEntry(d) == [kind |-> "file", data |-> d, files |-> NoFiles, writable |-> TRUE]
DirEntry(fs, w) == [kind |-> "dir", data |-> NoData, files |-> fs, writable |-> w]

RootData(n) == [origin |-> "root", name |-> n]
DestData(n) == [origin |-> "dest", name |-> n]
LogData == [origin |-> "log", name |-> LOG_FILE]

Remove(f, k) == [n \in DOMAIN f \ {k} |-> f[n]]
Put(f, k, v) == (k :> v) @@ f

\* Names an entry of the root may have before the first run.
FileNames == { <<"p", "h", "o", "t", "o", ".", "J", "P", "G">>, <<".", "h", "i", "d", "d", "e", "n">>, <<"n", "o", "t", "e", "s">>, <<"a", ".", "t", "x", "t">>, <<"a", "_", "c", "o", "p", "y", ".", "t", "x", "t">>,
               <<"~", "t", "m", "p", ".", "d", "o", "c">>, <<"r", "u", "n", ".", "s", "h">>, <<"x", ".", "z", "z", "z">> }
DirNames == { <<"v", "1", ".", "0">> }
Pool == FileNames \cup DirNames

Scenario5 == { <<"r", "e", "p", "o", "r", "t", ".", "p", "d", "f">>, <<"p", "h", "o", "t", "o", ".", "J", "P", "G">>, <<".", "h", "i", "d", "d", "e", "n">>, <<"n", "o", "t", "e", "s">>, <<"a", "r", "c", "h", "i", "v", "e", ".", "z", "i", "p">> }

PoolEntry(n) == IF n \in DirNames THEN DirEntry(NoFiles, TRUE) ELSE FileEntry(RootData(n))

Documents == <<"D", "o", "c", "u", "m", "e", "n", "t", "s">>
Images == <<"I", "m", "a", "g", "e", "s">>
Archives == <<"A", "r", "c", "h", "i", "v", "e", "s">>

DocumentsWith(names, w) == Documents :> DirEntry([n \in names |-> DestData(n)], w)

\* Environments of the first run: what already sits at a category folder's
\* name (pre) and the categories whose folder the file system refuses to
\* create (denied).
Environments ==
    { [pre |-> NoFiles, denied |-> {}],
      [pre |-> NoFiles, denied |-> {Documents}],
      [pre |-> NoFiles, denied |-> {Images}],
      [pre |-> DocumentsWith({}, TRUE), denied |-> {}],
      [pre |-> DocumentsWith({<<"a", ".", "t", "x", "t">>}, TRUE), denied |-> {}],
      [pre |-> DocumentsWith({<<"a", ".", "t", "x", "t">>}, TRUE), denied |-> {Images}],
      [pre |-> DocumentsWith({<<"a", ".", "t", "x", "t">>, <<"a", "_", "c", "o", "p", "y", ".", "t", "x", "t">>}, TRUE), denied |-> {}],
      [pre |-> DocumentsWith({<<"a", ".", "t", "x", "t">>}, FALSE), denied |-> {}],
      [pre |-> Documents :> FileEntry(RootData(Documents)), denied |-> {}] }

\* ------------------------------------------------------------------ state
VARIABLES
    root,          \* the root directory: name -> entry
    log,           \* messages passed to write_log since organize_files was called,
                   \* in emission order (the file is appended to and never read)
    pc,            \* position in organize_files / main
    categories_to_create,   \* create_category_folders: categories still to visit
    files,         \* organize_files: entries of the listing not yet iterated
    moved_count, skipped_count, error_count,
    run,           \* number of calls of organize_files so far
    logInRoot,     \* LOG_FILE lives in the root being organized
    denied,        \* categories for which os.makedirs raises
    rootAtStart,   \* history: root at the start of the current run, as line 66 lists it
    snapshot,      \* history: root and listing at line 131 of the current run
    prev           \* history: root and error_count at the end of the previous run

vars == << root, log, pc, categories_to_create, files, moved_count, skipped_count,
           error_count, run, logInRoot, denied, rootAtStart, snapshot, prev >>

Event(tag, name, cat, counts) == [tag |-> tag, name |-> name, cat |-> cat, counts |-> counts]
Msg(tag) == Event(tag, << >>, << >>, <<0, 0, 0>>)
FileMsg(tag, name, cat) == Event(tag, name, cat, <<0, 0, 0>>)

\* os.path.isdir(os.path.join(root, filename))
IsDir(r, filename) == filename \in DOMAIN r /\ r[filename].kind = "dir"

\* open(LOG_FILE, "a") creates the log file when it does not exist yet.
write_log(r, inRoot) ==
    IF inRoot /\ LOG_FILE \notin DOMAIN r THEN Put(r, LOG_FILE, FileEntry(LogData)) ELSE r

\* Faulty variant: names starting with '~' are not filtered.
should_skip_NoTilde(r, filename) ==
    \/ IsDir(r, filename)
    \/ filename = LOG_FILE
    \/ StartsWith(filename, ".")

should_skip(r, filename) ==
    \/ IsDir(r, filename)
    \/ filename = LOG_FILE
    \/ StartsWith(filename, ".")
    \/ StartsWith(filename, "~")

\* create_category_folders: ext = filename.split('.')[-1].lower(); category = ...
ProvisionCategory(filename) == Get(Lower(LastPart(filename)))

\* Faulty variant: the extension is looked up as written.
MoveCategory_NoLower(filename) == Get(LastPart(filename))

\* organize_files: ext = filename.split('.')[-1].lower(); category = ...
MoveCategory(filename) == Get(Lower(LastPart(filename)))

DRY_RUN == FALSE

\* shutil.move(filepath, target_path) succeeds iff the parent of target_path
\* is a directory accepting writes; os.rename replaces an existing file.
CanMoveInto(r, category) ==
    category \in DOMAIN r /\ r[category].kind = "dir" /\ r[category].writable

\* Path(target_dir) / filename, after the duplicate check.  Path.exists() is
\* False when target_dir is missing or is not a directory.
TargetName(r, filename, category) ==
    IF IsDir(r, category) /\ filename \in DOMAIN r[category].files
    THEN WithCopyStem(filename)
    ELSE filename

\* Faulty variant: no duplicate check, the move replaces the existing file.
move_file_NoDuplicateCheck(r, filename, category) ==
    IF CanMoveInto(r, category)
    THEN [ok |-> TRUE,
          root |-> Remove([r EXCEPT ![category].files =
                              Put(@, filename, r[filename].data)], filename)]
    ELSE [ok |-> FALSE, root |-> r]

\* Faulty variant: the file is copied, the source stays in the root.
move_file_Copy(r, filename, category) ==
    LET target == TargetName(r, filename, category)
    IN  IF CanMoveInto(r, category)
        THEN [ok |-> TRUE,
              root |-> [r EXCEPT ![category].files = Put(@, target, r[filename].data)]]
        ELSE [ok |-> FALSE, root |-> r]

\* move_file: ok = FALSE stands for the exception shutil.move raises.
move_file(r, filename, category) ==
    LET target == TargetName(r, filename, category)
    IN  IF DRY_RUN
        THEN [ok |-> TRUE, root |-> r]
        ELSE IF CanMoveInto(r, category)
             THEN [ok |-> TRUE,
                   root |-> Remove([r EXCEPT ![category].files =
                                       Put(@, target, r[filename].data)], filename)]
             ELSE [ok |-> FALSE, root |-> r]

State(r, l, m, s, e) == [root |-> r, log |-> l, moved |-> m, skipped |-> s, errors |-> e]

\* Faulty variant: a failed move is counted as moved.
LoopBody_CountsFailureAsMoved(st, filename) ==
    IF should_skip(st.root, filename)
    THEN [st EXCEPT !.skipped = @ + 1]
    ELSE IF HasDot(filename)
         THEN LET category == MoveCategory(filename)
                  res == move_file(st.root, filename, category)
              IN  IF res.ok
                  THEN [st EXCEPT !.root = res.root,
                                  !.log = Append(@, FileMsg(IF DRY_RUN THEN "DryRun" ELSE "Moved",
                                                            filename, category)),
                                  !.moved = @ + 1]
                  ELSE [st EXCEPT !.log = @ \o << FileMsg("FailedMove", filename, << >>),
                                                  Msg("Traceback") >>,
                                  !.moved = @ + 1]
         ELSE [st EXCEPT !.log = Append(@, FileMsg("NoExtension", filename, << >>)),
                         !.skipped = @ + 1]

\* One iteration of the for loop of organize_files.
LoopBody(st, filename) ==
    IF should_skip(st.root, filename)
    THEN [st EXCEPT !.skipped = @ + 1]
    ELSE IF HasDot(filename)
         THEN LET category == MoveCategory(filename)
                  res == move_file(st.root, filename, category)
              IN  IF res.ok
                  THEN [st EXCEPT !.root = res.root,
                                  !.log = Append(@, FileMsg(IF DRY_RUN THEN "DryRun" ELSE "Moved",
                                                            filename, category)),
                                  !.moved = @ + 1]
                  ELSE [st EXCEPT !.log = @ \o << FileMsg("FailedMove", filename, << >>),
                                                  Msg("Traceback") >>,
                                  !.errors = @ + 1]
         ELSE [st EXCEPT !.log = Append(@, FileMsg("NoExtension", filename, << >>)),
                         !.skipped = @ + 1]

\* ------------------------------------------------------------------- Init
NoSnapshot == [root |-> NoFiles, files |-> {}]
NoPrev == [valid |-> FALSE, root |-> NoFiles, errors |-> 0]

\* Either a few entries of Pool in one of Environments, or the five files of
\* Scenario5 alone in a root where every folder can be created.
Init ==
    /\ \/ \E S \in SUBSET Pool, env \in Environments :
             /\ Cardinality(S) <= MaxFiles
             /\ root = env.pre @@ [n \in S |-> PoolEntry(n)]
             /\ denied = env.denied
       \/ /\ root = [n \in Scenario5 |-> FileEntry(RootData(n))]
          /\ denied = {}
    /\ logInRoot \in BOOLEAN
    /\ log = << >>
    /\ pc = "NotStarted"
    /\ categories_to_create = {}
    /\ files = {}
    /\ moved_count = 0 /\ skipped_count = 0 /\ error_count = 0
    /\ run = 0
    /\ rootAtStart = NoFiles
    /\ snapshot = NoSnapshot
    /\ prev = NoPrev

\* ---------------------------------------------------------------- actions
\* organize_files is called: the four start messages are written.
StartRun ==
    /\ pc \in {"NotStarted", "Done"}
    /\ run < MaxRuns
    /\ run' = run + 1
    /\ prev' = IF pc = "Done" THEN [valid |-> TRUE, root |-> root, errors |-> error_count]
               ELSE NoPrev
    /\ rootAtStart' = write_log(root, logInRoot)
    /\ root' = write_log(root, logInRoot)
    /\ log' = << Msg("Banner"), Msg("Starting"), Msg("StartTime"), Msg("Banner") >>
    /\ pc' = "Provisioning"
    /\ UNCHANGED << categories_to_create, files, moved_count, skipped_count, error_count,
                    logInRoot, denied, snapshot >>

\* os.listdir(root) raises: the exception leaves organize_files and main
\* logs it as critical.
FatalScan ==
    /\ pc = "Provisioning"
    /\ log' = Append(log, Msg("CRITICAL"))
    /\ pc' = "Fatal"
    /\ UNCHANGED << root, categories_to_create, files, moved_count, skipped_count,
                    error_count, run, logInRoot, denied, rootAtStart, snapshot, prev >>

\* create_category_folders, first loop: the categories of the listed files.
ListCategories ==
    /\ pc = "Provisioning"
    /\ categories_to_create' =
          { ProvisionCategory(filename) :
              filename \in {n \in DOMAIN root : ~should_skip(root, n) /\ HasDot(n)} }
    /\ pc' = "CreatingFolders"
    /\ UNCHANGED << root, log, files, moved_count, skipped_count, error_count, run,
                    logInRoot, denied, rootAtStart, snapshot, prev >>

\* Faulty variant: the first failure ends the loop.
MakeFolder_StopOnFailure(category) ==
    /\ pc = "CreatingFolders"
    /\ category \in categories_to_create
    /\ IF category \in DOMAIN root
       THEN /\ UNCHANGED << root, log >>
            /\ categories_to_create' = categories_to_create \ {category}
       ELSE IF category \in denied
            THEN /\ log' = Append(log, FileMsg("FailedCreate", << >>, category))
                 /\ categories_to_create' = {}
                 /\ UNCHANGED root
            ELSE /\ root' = Put(root, category, DirEntry(NoFiles, TRUE))
                 /\ log' = Append(log, FileMsg("Created", << >>, category))
                 /\ categories_to_create' = categories_to_create \ {category}
    /\ UNCHANGED << pc, files, moved_count, skipped_count, error_count, run, logInRoot,
                    denied, rootAtStart, snapshot, prev >>

\* create_category_folders, second loop: one iteration, in set order.
MakeFolder(category) ==
    /\ pc = "CreatingFolders"
    /\ category \in categories_to_create
    /\ categories_to_create' = categories_to_create \ {category}
    /\ IF category \in DOMAIN root
       THEN UNCHANGED << root, log >>
       ELSE IF category \in denied
            THEN /\ log' = Append(log, FileMsg("FailedCreate", << >>, category))
                 /\ UNCHANGED root
            ELSE /\ root' = Put(root, category, DirEntry(NoFiles, TRUE))
                 /\ log' = Append(log, FileMsg("Created", << >>, category))
    /\ UNCHANGED << pc, files, moved_count, skipped_count, error_count, run, logInRoot,
                    denied, rootAtStart, snapshot, prev >>

\* organize_files: the counters are reset and the root is listed.
Scan ==
    /\ pc = "CreatingFolders"
    /\ categories_to_create = {}
    /\ moved_count' = 0 /\ skipped_count' = 0 /\ error_count' = 0
    /\ files' = DOMAIN root
    /\ snapshot' = [root |-> root, files |-> DOMAIN root]
    /\ pc' = "Processing"
    /\ UNCHANGED << root, log, categories_to_create, run, logInRoot, denied, rootAtStart,
                    prev >>

\* organize_files: one iteration of the for loop; listing order is arbitrary.
Process(filename) ==
    /\ pc = "Processing"
    /\ filename \in files
    /\ LET st == LoopBody(State(root, log, moved_count, skipped_count, error_count), filename)
       IN  /\ root' = st.root
           /\ log' = st.log
           /\ moved_count' = st.moved
           /\ skipped_count' = st.skipped
           /\ error_count' = st.errors
    /\ files' = files \ {filename}
    /\ UNCHANGED << pc, categories_to_create, run, logInRoot, denied, rootAtStart,
                    snapshot, prev >>

\* organize_files: the summary is printed and logged.
Summarize ==
    /\ pc = "Processing"
    /\ files = {}
    /\ log' = log \o << Event("Summary", << >>, << >>,
                              <<moved_count, skipped_count, error_count>>),
                        Msg("Banner") >>
    /\ pc' = "Done"
    /\ UNCHANGED << root, categories_to_create, files, moved_count, skipped_count,
                    error_count, run, logInRoot, denied, rootAtStart, snapshot, prev >>

Next ==
    \/ StartRun
    \/ FatalScan
    \/ ListCategories
    \/ \E category \in Categories : MakeFolder(category)
    \/ Scan
    \/ \E filename \in DOMAIN snapshot.root : Process(filename)
    \/ Summarize

Spec == Init /\ [][Next]_vars

\* ------------------------------------------------- vocabulary of the claims
\* The messages logged since the current run was called.
RunLog == log

Logged(l, tag, name, cat) ==
    \E i \in DOMAIN l : l[i].tag = tag /\ l[i].name = name /\ l[i].cat = cat

LoggedFailure(l, name) == \E i \in DOMAIN l : l[i].tag = "FailedMove" /\ l[i].name = name

\* The entry is a directory, or is named like the log file, or its name
\* starts with '.' or with '~'.
Filtered(r, n) ==
    \/ r[n].kind = "dir"
    \/ n = <<"f", "i", "l", "e", "_", "o", "r", "g", "a", "n", "i", "z", "e", "r", "_", "l", "o", "g", ".", "t", "x", "t">>
    \/ n[1] \in {".", "~"}

\* A file the run has to move: not filtered, and with a '.' in its name.
Eligible(r, n) == ~Filtered(r, n) /\ \E i \in 1..Len(n) : n[i] = "."

\* The table entry for the lower-cased substring after the last '.'.
TableCategory(n) ==
    LET e == Lower(LastPart(n))
    IN  IF e \in TableExts THEN FILE_EXTENSIONS[e] ELSE <<"O", "t", "h", "e", "r">>

\* The step iterates over entry f of the listing.
Iterates(f) == pc = "Processing" /\ f \in files /\ files' = files \ {f}

\* ---------------------------------------------------------------------- C1
\* C1: at the summary of every completed run, moved + skipped + errored is
\* the number of entries of the listing taken at the start of the run.
C1_CounterConservation ==
    pc = "Done" =>
        moved_count + skipped_count + error_count = Cardinality(DOMAIN rootAtStart)

\* ---------------------------------------------------------------------- C2
\* C2: in a run where no move fails, moved is the number of run-start entries
\* that are non-filtered files with an extension and skipped the number of
\* run-start entries that are filtered or have no extension; the root of
\* Scenario5 ends with moved = 3, skipped = 2, errored = 0 and the three
\* files in Documents, Images and Archives.
C2_RunStartCounts ==
    (pc = "Done" /\ error_count = 0) =>
        /\ moved_count = Cardinality({n \in DOMAIN rootAtStart : Eligible(rootAtStart, n)})
        /\ skipped_count = Cardinality({n \in DOMAIN rootAtStart : ~Eligible(rootAtStart, n)})
        /\ DOMAIN rootAtStart = Scenario5 =>
              /\ <<moved_count, skipped_count, error_count>> = <<3, 2, 0>>
              /\ <<"r", "e", "p", "o", "r", "t", ".", "p", "d", "f">> \in DOMAIN root[Documents].files
              /\ <<"p", "h", "o", "t", "o", ".", "J", "P", "G">> \in DOMAIN root[Images].files
              /\ <<"a", "r", "c", "h", "i", "v", "e", ".", "z", "i", "p">> \in DOMAIN root[Archives].files

\* ---------------------------------------------------------------------- C8
RECURSIVE Orders(_)
\* All listing orders of a set of entries.
Orders(S) ==
    IF S = {} THEN { << >> }
    ELSE UNION { { <<x>> \o o : o \in Orders(S \ {x}) } : x \in S }

RECURSIVE RunInOrder(_, _)
\* The for loop of organize_files run over the listing in the given order.
RunInOrder(st, order) ==
    IF order = << >> THEN st
    ELSE RunInOrder(LoopBody(st, Head(order)), Tail(order))

\* The data of every file in the root and in its folders.
Contents(r) ==
    {r[n].data : n \in {m \in DOMAIN r : r[m].kind = "file"}}
    \cup UNION { Range(r[d].files) : d \in {m \in DOMAIN r : r[m].kind = "dir"} }

\* C8: when a run without failure ends, every other order of the same
\* listing that has no failure either gives the same counters and the same
\* set of file contents (stated for listings of at most four entries).
C8_OrderIndependence ==
    (pc = "Done" /\ error_count = 0 /\ Cardinality(snapshot.files) <= 4) =>
        \A order \in Orders(snapshot.files) :
            LET st == RunInOrder(State(snapshot.root, << >>, 0, 0, 0), order)
            IN  st.errors = 0 =>
                    /\ <<st.moved, st.skipped>> = <<moved_count, skipped_count>>
                    /\ Contents(st.root) = Contents(root)

\* --------------------------------------------------------------------- C10
\* C10: every file the run moves lands in the folder of every category of
\* EXTENSION_MAP that lists its extension, and FILE_EXTENSIONS maps the
\* extension to that category.
C10_TableConsistency ==
    \A i \in DOMAIN log :
        log[i].tag = "Moved" =>
            \A k \in DOMAIN EXTENSION_MAP :
                LET e == Lower(LastPart(log[i].name))
                IN  e \in Range(EXTENSION_MAP[k].exts) =>
                        /\ FILE_EXTENSIONS[e] = EXTENSION_MAP[k].category
                        /\ log[i].cat = EXTENSION_MAP[k].category

\* ---------------------------------------------------------------------- C3
\* The name with "_copy" inserted before the last '.'.
CopyName(f) ==
    LET i == CHOOSE k \in 1..Len(f) : f[k] = "." /\ \A j \in (k+1)..Len(f) : f[j] # "."
    IN  SubSeq(f, 1, i - 1) \o <<"_", "c", "o", "p", "y">> \o SubSeq(f, i, Len(f))

\* C3: a step that moves file f into a category folder already holding a
\* file named f puts the new file at the name with "_copy" before the last
\* extension (a.txt goes to a_copy.txt), leaves the file that was there as
\* it was, and takes f out of the root.
C3_CollisionSafety ==
    [][ \A f \in files, c \in Categories :
          ( /\ Iterates(f)
            /\ log' = Append(log, FileMsg("Moved", f, c))
            /\ c \in DOMAIN root /\ f \in DOMAIN root[c].files )
          => /\ f \in DOMAIN root'[c].files
             /\ root'[c].files[f] = root[c].files[f]
             /\ CopyName(f) \in DOMAIN root'[c].files
             /\ root'[c].files[CopyName(f)] = root[f].data
             /\ f \notin DOMAIN root'
             /\ f = <<"a", ".", "t", "x", "t">> => root'[c].files[<<"a", "_", "c", "o", "p", "y", ".", "t", "x", "t">>] = root[f].data
      ]_vars

\* A run moved a.txt from the root into Documents, which held an a.txt: both
\* are there.
C3_Witness ==
    /\ Documents \in DOMAIN root
    /\ {<<"a", ".", "t", "x", "t">>, <<"a", "_", "c", "o", "p", "y", ".", "t", "x", "t">>} \subseteq DOMAIN root[Documents].files
    /\ root[Documents].files[<<"a", ".", "t", "x", "t">>] = DestData(<<"a", ".", "t", "x", "t">>)
    /\ root[Documents].files[<<"a", "_", "c", "o", "p", "y", ".", "t", "x", "t">>] = RootData(<<"a", ".", "t", "x", "t">>)
    /\ <<"a", ".", "t", "x", "t">> \notin DOMAIN root
    /\ Logged(log, "Moved", <<"a", ".", "t", "x", "t">>, Documents)

\* ---------------------------------------------------------------------- C4
\* The folder the file has to go to is missing, is not a directory, or does
\* not accept writes.
MoveMustFail(r, f) ==
    LET c == TableCategory(f)
    IN  c \notin DOMAIN r \/ r[c].kind # "dir" \/ ~r[c].writable

\* The summary the run logged.
SummaryCounts == log[Len(log) - 1].counts

\* C4: a step whose move fails counts the entry as errored and not as
\* moved, leaves the file where it is, takes the entry off the listing
\* (no retry) and stays in the loop; every step of the loop takes one entry
\* off the listing or, after the last one, writes the summary, which is
\* then possible; a finished run has iterated over the whole listing and
\* its summary reports as many errors as moves failed.
C4_FailureIsolation ==
    /\ [][ /\ \A f \in files :
                (Iterates(f) /\ Eligible(root, f) /\ MoveMustFail(root, f))
                => /\ error_count' = error_count + 1
                   /\ moved_count' = moved_count
                   /\ skipped_count' = skipped_count
                   /\ root' = root
                   /\ LoggedFailure(log', f) /\ ~Logged(log', "Moved", f, TableCategory(f))
                   /\ pc' = "Processing"
           /\ pc = "Processing" =>
                \/ pc' = "Processing" /\ \E f \in files : files' = files \ {f}
                \/ pc' = "Done" /\ files = {}
         ]_vars
    /\ []((pc = "Processing" /\ files = {}) => ENABLED Summarize)
    /\ [](pc = "Done" =>
            /\ files = {}
            /\ SummaryCounts = <<moved_count, skipped_count, error_count>>
            /\ error_count = Cardinality({f \in snapshot.files : LoggedFailure(RunLog, f)})
            /\ \A f \in snapshot.files :
                  LoggedFailure(RunLog, f) =>
                      /\ Cardinality({i \in DOMAIN RunLog : RunLog[i].name = f}) = 1
                      /\ f \in DOMAIN root /\ root[f] = snapshot.root[f])

\* A finished run in which a move failed and a later entry was moved.
C4_Witness ==
    /\ pc = "Done"
    /\ error_count >= 1
    /\ \E i, j \in DOMAIN RunLog :
          i < j /\ RunLog[i].tag = "FailedMove" /\ RunLog[j].tag = "Moved"

\* ---------------------------------------------------------------------- C5
\* The categories of the files the run has to move.
Needed == {TableCategory(f) : f \in {n \in DOMAIN rootAtStart : Eligible(rootAtStart, n)}}

\* The file system refuses to create the folder of needed category c.
CreationFails(c) == c \in Needed /\ c \in denied /\ c \notin DOMAIN rootAtStart

\* C5: when the folder of a needed category cannot be created, the failure
\* is logged with the category's name, the other needed folders exist when
\* the loop starts, the run goes on to the loop and to the summary, every
\* file of the failed category ends in the root, unchanged, counted as
\* errored and not as moved, and the files of the categories whose folder
\* accepts them are moved.
C5_FolderCreationFailure ==
    /\ \A i \in DOMAIN RunLog :
          RunLog[i].tag = "FailedCreate" => (CreationFails(RunLog[i].cat) /\ pc # "Fatal")
    /\ \A c \in denied :
          (CreationFails(c) /\ pc \in {"Processing", "Done"}) =>
            /\ Logged(RunLog, "FailedCreate", << >>, c)
            /\ c \notin DOMAIN root
            /\ \A d \in Needed \ denied : d \in DOMAIN snapshot.root
            /\ pc = "Done" =>
                  /\ \A f \in DOMAIN rootAtStart :
                        (Eligible(rootAtStart, f) /\ TableCategory(f) = c) =>
                            /\ f \in DOMAIN root /\ root[f] = rootAtStart[f]
                            /\ LoggedFailure(RunLog, f)
                            /\ ~Logged(RunLog, "Moved", f, c)
                  /\ error_count >=
                        Cardinality({f \in DOMAIN rootAtStart :
                                        Eligible(rootAtStart, f) /\ TableCategory(f) = c})
                  /\ moved_count =
                        Cardinality({f \in DOMAIN rootAtStart :
                                        Eligible(rootAtStart, f) /\ f \notin DOMAIN root})
                  /\ \A f \in DOMAIN rootAtStart :
                        (Eligible(rootAtStart, f) /\ ~MoveMustFail(snapshot.root, f)) =>
                            /\ f \notin DOMAIN root
                            /\ Logged(RunLog, "Moved", f, TableCategory(f))

\* The Documents folder could not be created: a.txt stayed in the root and
\* photo.JPG was moved to Images.
C5_Witness ==
    /\ pc = "Done"
    /\ CreationFails(Documents)
    /\ Logged(RunLog, "FailedCreate", << >>, Documents)
    /\ <<"a", ".", "t", "x", "t">> \in DOMAIN root /\ LoggedFailure(RunLog, <<"a", ".", "t", "x", "t">>)
    /\ Images \in DOMAIN root /\ <<"p", "h", "o", "t", "o", ".", "J", "P", "G">> \in DOMAIN root[Images].files

\* ---------------------------------------------------------------------- C6
\* C6: the loop counts an entry as filtered (skipped, nothing logged,
\* nothing changed in the root) exactly when it is a directory, or is named
\* like the log file, or its name starts with '.' or '~'; the categories to
\* create come from the other entries only; and should_skip gives the
\* verdicts of the unit test.
C6_ShouldSkip ==
    /\ [][ /\ \A f \in files :
                Iterates(f) =>
                    /\ Filtered(root, f) <=>
                          (skipped_count' = skipped_count + 1 /\ log' = log)
                    /\ Filtered(root, f) =>
                          /\ root' = root
                          /\ moved_count' = moved_count /\ error_count' = error_count
                    /\ (~Filtered(root, f) /\ \A i \in 1..Len(f) : f[i] # ".") =>
                          log' = Append(log, FileMsg("NoExtension", f, << >>))
                    /\ (~Filtered(root, f) /\ \E i \in 1..Len(f) : f[i] = ".") =>
                          moved_count' + error_count' = moved_count + error_count + 1
           /\ pc' = "CreatingFolders" /\ pc = "Provisioning" =>
                categories_to_create' =
                    {TableCategory(f) : f \in {n \in DOMAIN root : Eligible(root, n)}}
         ]_vars
    /\ [](/\ should_skip(root, <<".", "h", "i", "d", "d", "e", "n", "_", "f", "i", "l", "e">>)
          /\ ~should_skip(root, <<"d", "o", "c", "u", "m", "e", "n", "t", ".", "p", "d", "f">>))

\* A finished run left ~tmp.doc and the directory v1.0 in the root and
\* counted both as skipped.
C6_Witness ==
    /\ pc = "Done"
    /\ {<<"~", "t", "m", "p", ".", "d", "o", "c">>, <<"v", "1", ".", "0">>} \subseteq snapshot.files
    /\ {<<"~", "t", "m", "p", ".", "d", "o", "c">>, <<"v", "1", ".", "0">>} \subseteq DOMAIN root
    /\ skipped_count >= 2
    /\ moved_count = 0 /\ error_count = 0

\* ---------------------------------------------------------------------- C7
\* str.upper() on one character
UpperChar(c) ==
    IF \E i \in DOMAIN LowerCase : LowerCase[i] = c
    THEN UpperCase[CHOOSE i \in DOMAIN LowerCase : LowerCase[i] = c]
    ELSE c

\* str.upper()
Upper(s) == [i \in 1..Len(s) |-> UpperChar(s[i])]

\* Extensions that are in no list of EXTENSION_MAP.
AbsentExts == { <<"z", "z", "z">>, <<"P", "D", "F", "X">>, <<"t">>, << >>, <<"t", "x">> }

\* A file name with extension e.
Named(e) == <<"x", ".">> \o e

\* The category whose list holds extension e (for the extensions that are
\* in one list only, this is the table entry).
ListedUnder ==
    [e \in TableExts |->
        {EXTENSION_MAP[k].category :
            k \in {j \in DOMAIN EXTENSION_MAP : e \in Range(EXTENSION_MAP[j].exts)}}]

\* C7: the category the loop moves a file to, and the category a folder is
\* provisioned for, is the table entry of the lower-cased extension: it is
\* the same for an extension of the table and for its upper-case form, it
\* is a category listing the extension, and it is "Other" for an extension
\* absent from the table.
C7_CategoryResolution ==
    /\ \A i \in DOMAIN log :
          log[i].tag = "Moved" =>
              LET e == LastPart(log[i].name)
              IN  /\ log[i].cat \in Categories
                  /\ Lower(e) \in TableExts => log[i].cat \in ListedUnder[Lower(e)]
                  /\ Lower(e) \notin TableExts => log[i].cat = <<"O", "t", "h", "e", "r">>
                  /\ log[i].name = <<"p", "h", "o", "t", "o", ".", "J", "P", "G">> => log[i].cat = <<"I", "m", "a", "g", "e", "s">>
                  /\ log[i].name = <<"x", ".", "z", "z", "z">> => log[i].cat = <<"O", "t", "h", "e", "r">>
    /\ \A i \in DOMAIN RunLog :
          RunLog[i].tag \in {"Created", "FailedCreate"} =>
              \E f \in DOMAIN rootAtStart :
                  /\ Eligible(rootAtStart, f)
                  /\ IF Lower(LastPart(f)) \in TableExts
                     THEN RunLog[i].cat \in ListedUnder[Lower(LastPart(f))]
                     ELSE RunLog[i].cat = <<"O", "t", "h", "e", "r">>
    /\ pc = "NotStarted" =>
          /\ \A e \in TableExts :
                /\ MoveCategory(Named(e)) = MoveCategory(Named(Upper(e)))
                /\ ProvisionCategory(Named(e)) = ProvisionCategory(Named(Upper(e)))
                /\ MoveCategory(Named(e)) \in ListedUnder[e]
                /\ ProvisionCategory(Named(e)) = MoveCategory(Named(e))
          /\ \A e \in AbsentExts :
                /\ MoveCategory(Named(e)) = <<"O", "t", "h", "e", "r">>
                /\ ProvisionCategory(Named(e)) = <<"O", "t", "h", "e", "r">>

\* A finished run moved photo.JPG into Images and x.zzz into Other.
C7_Witness ==
    /\ pc = "Done"
    /\ Logged(RunLog, "Moved", <<"p", "h", "o", "t", "o", ".", "J", "P", "G">>, <<"I", "m", "a", "g", "e", "s">>)
    /\ Logged(RunLog, "Moved", <<"x", ".", "z", "z", "z">>, <<"O", "t", "h", "e", "r">>)
    /\ <<"p", "h", "o", "t", "o", ".", "J", "P", "G">> \in DOMAIN root[<<"I", "m", "a", "g", "e", "s">>].files
    /\ <<"x", ".", "z", "z", "z">> \in DOMAIN root[<<"O", "t", "h", "e", "r">>].files

====
